---- MODULE Spec2Model ----
(***************************************************************************)
(* Model of server/req.c: the request-ingestion layer.  RecvReq reads one  *)
(* JSON document from the control stream TubeFile, decodes a Cmd request   *)
(* (argv, envp, redirect flags) and receives the redirected descriptors    *)
(* from the companion channel FdTubeFd.                                    *)
(*                                                                         *)
(* The C heap is modelled explicitly: a block is live while its address is *)
(* in the domain of heap.m, and heap.bad records a free of an address that *)
(* is not live or a walk past the end of a block.                          *)
(***************************************************************************)
EXTENDS Integers, Sequences, FiniteSets, TLC

(* ---------------------------------------------------------------------- *)
(* Bounds of the model                                                     *)
(* ---------------------------------------------------------------------- *)
MaxDocs == 2
MaxQueue == 1
MaxMsgs == 2

(* ---------------------------------------------------------------------- *)
(* Program constants                                                       *)
(* ---------------------------------------------------------------------- *)
NULL == 0
REQ_TYPE_CMD == 1
REQ_TYPE_EXIT == 2
CONTROLLEN == 20

(* ---------------------------------------------------------------------- *)
(* JSON values as the parser hands them over (jansson json_t)              *)
(* An object is the sequence of its members in enumeration order.          *)
(* ---------------------------------------------------------------------- *)
JStr(s) == [t |-> "string", v |-> s]
JInt(n) == [t |-> "integer", v |-> n]
JBool(b) == [t |-> "bool", v |-> b]
JArr(a) == [t |-> "array", v |-> a]
JObj(o) == [t |-> "object", v |-> o]
JNull == [t |-> "null"]
KV(k, x) == [k |-> k, v |-> x]

json_is_string(j) == j.t = "string"
json_is_array(j) == j.t = "array"
json_is_object(j) == j.t = "object"
json_is_boolean(j) == j.t = "bool"
json_string_value(j) == j.v
json_array_size(j) == Len(j.v)
json_array_get(j, i) == j.v[i + 1]
json_object_size(j) == Len(j.v)
HasKey(j, key) == \E i \in 1..Len(j.v) : j.v[i].k = key
json_object_get(j, key) == j.v[CHOOSE i \in 1..Len(j.v) : j.v[i].k = key].v

(* ---------------------------------------------------------------------- *)
(* The heap                                                                *)
(* ---------------------------------------------------------------------- *)
EmptyHeap == [m |-> <<>>, bad |-> FALSE]
Live(H) == DOMAIN H.m

malloc(H, block) ==
    LET a == CHOOSE a \in 1..(Cardinality(DOMAIN H.m) + 1) :
                 /\ a \notin DOMAIN H.m
                 /\ \A b \in 1..(a - 1) : b \in DOMAIN H.m
    IN  [H |-> [H EXCEPT !.m = (a :> block) @@ H.m], r |-> a]

free(H, a) ==
    IF a \in DOMAIN H.m
    THEN [H EXCEPT !.m = [b \in (DOMAIN H.m) \ {a} |-> H.m[b]]]
    ELSE [H EXCEPT !.bad = TRUE]

strdup(H, s) == malloc(H, [kind |-> "str", s |-> s])

ZeroReqCmd ==
    [kind |-> "ReqCmd", type |-> 0, path |-> NULL, argv |-> NULL,
     envp |-> NULL, redirInput |-> 0, redirOutput |-> 0,
     input |-> 0, output |-> 0]

(* alloc(type, n) of common.h: n zero-filled elements of the type.         *)
alloc(H, type, n) ==
    CASE type = "char*"   -> malloc(H, [kind |-> "ptrs", p |-> [i \in 1..n |-> NULL]])
      [] type = "ReqCmd"  -> malloc(H, ZeroReqCmd)
      [] type = "ReqExit" -> malloc(H, [kind |-> "ReqExit", type |-> 0])

(* argv[i] = s, i counted from 0 as in the C code                          *)
StorePtr(H, arr, i, s) == [H EXCEPT !.m[arr].p[i + 1] = s]

(* ---------------------------------------------------------------------- *)
(* freeStrings, freeReqCmd, freeReqExit, FreeReq                           *)
(* ---------------------------------------------------------------------- *)
RECURSIVE freeStringsLoop(_, _, _)
freeStringsLoop(H, p, q) ==
    IF q >= Len(H.m[p].p) THEN [H EXCEPT !.bad = TRUE]
    ELSE IF H.m[p].p[q + 1] # NULL
         THEN freeStringsLoop(free(H, H.m[p].p[q + 1]), p, q + 1)
         ELSE H

(* Variant: the array is released, its strings are not *)
freeStrings_ArrayOnly(H, p) ==
    IF p \notin DOMAIN H.m THEN [H EXCEPT !.bad = TRUE]
    ELSE free(H, p)

freeStrings(H, p) ==
    IF p \notin DOMAIN H.m THEN [H EXCEPT !.bad = TRUE]
    ELSE free(freeStringsLoop(H, p, 0), p)

(* Variant: envp is not released *)
freeReqCmd_SkipEnvp(H, p) ==
    LET c == H.m[p]
        H1 == IF c.path # NULL THEN free(H, c.path) ELSE H
        H2 == IF c.argv # NULL THEN freeStrings(H1, c.argv) ELSE H1
    IN  free(H2, p)

freeReqCmd(H, p) ==
    LET c == H.m[p]
        H1 == IF c.path # NULL THEN free(H, c.path) ELSE H
        H2 == IF c.argv # NULL THEN freeStrings(H1, c.argv) ELSE H1
        H3 == IF c.envp # NULL THEN freeStrings(H2, c.envp) ELSE H2
    IN  free(H3, p)

freeReqExit(H, p) == free(H, p)

FreeReq(H, p) ==
    CASE H.m[p].type = REQ_TYPE_CMD  -> freeReqCmd(H, p)
      [] H.m[p].type = REQ_TYPE_EXIT -> freeReqExit(H, p)
      [] OTHER -> H

(* ---------------------------------------------------------------------- *)
(* loadArgv, loadEnvp                                                      *)
(* ---------------------------------------------------------------------- *)
RECURSIVE loadArgvLoop(_, _, _, _, _)
loadArgvLoop(H, argv, root, i, n) ==
    IF i < n
    THEN LET arg == json_array_get(root, i) IN
         IF ~json_is_string(arg)
         THEN [H |-> freeStrings(H, argv), r |-> NULL]
         ELSE LET d == strdup(H, json_string_value(arg))
              IN  loadArgvLoop(StorePtr(d.H, argv, i, d.r), argv, root, i + 1, n)
    ELSE [H |-> H, r |-> argv]

(* Variant: an empty array is treated as a failure *)
loadArgv_EmptyIsNull(H, root) ==
    IF ~json_is_array(root) \/ json_array_size(root) = 0 THEN [H |-> H, r |-> NULL]
    ELSE LET n == json_array_size(root)
             a == alloc(H, "char*", n + 1)
         IN  loadArgvLoop(a.H, a.r, root, 0, n)

loadArgv(H, root) ==
    IF ~json_is_array(root) THEN [H |-> H, r |-> NULL]
    ELSE LET n == json_array_size(root)
             a == alloc(H, "char*", n + 1)
         IN  loadArgvLoop(a.H, a.r, root, 0, n)

RECURSIVE loadEnvpLoop(_, _, _, _)
loadEnvpLoop(H, envp, root, i) ==
    IF i < json_object_size(root)
    THEN LET key == root.v[i + 1].k
             value == root.v[i + 1].v
         IN  IF ~json_is_string(value)
             THEN [H |-> freeStrings(H, envp), r |-> NULL]
             ELSE LET value_s == json_string_value(value)
                      d == malloc(H, [kind |-> "str", s |-> key \o "=" \o value_s])
                  IN  loadEnvpLoop(StorePtr(d.H, envp, i, d.r), envp, root, i + 1)
    ELSE [H |-> H, r |-> envp]

loadEnvp(H, root) ==
    IF ~json_is_object(root) THEN [H |-> H, r |-> NULL]
    ELSE LET n == json_object_size(root)
             a == alloc(H, "char*", n + 1)
         IN  loadEnvpLoop(a.H, a.r, root, 0)

newReqCmd(H) ==
    LET a == alloc(H, "ReqCmd", 1)
    IN  [H |-> [a.H EXCEPT !.m[a.r].type = REQ_TYPE_CMD], r |-> a.r]

newReqExit(H) ==
    LET a == alloc(H, "ReqExit", 1)
    IN  [H |-> [a.H EXCEPT !.m[a.r].type = REQ_TYPE_EXIT], r |-> a.r]

(* ---------------------------------------------------------------------- *)
(* json_unpack_ex(root, 0, JSON_STRICT, "{ss so so sb sb}", ...)           *)
(* Keys are taken in format order; a flag is written as soon as its key    *)
(* has been unpacked; JSON_STRICT rejects any key that was not unpacked.   *)
(* ---------------------------------------------------------------------- *)
FlagInt(j) == IF j.v THEN 1 ELSE 0

(* Variant: the unpack without JSON_STRICT *)
json_unpack_ex_NotStrict(root) ==
    LET fail == [rc |-> -1, path |-> "", args |-> JNull, env |-> JNull,
                 redirInput |-> 0, redirOutput |-> 0]
    IN  IF ~json_is_object(root) THEN fail
        ELSE IF ~(HasKey(root, "Path") /\ json_is_string(json_object_get(root, "Path")))
             THEN fail
        ELSE IF ~HasKey(root, "Args") THEN fail
        ELSE IF ~HasKey(root, "Env") THEN fail
        ELSE IF ~(HasKey(root, "RedirInput")
                    /\ json_is_boolean(json_object_get(root, "RedirInput")))
             THEN fail
        ELSE IF ~(HasKey(root, "RedirOutput")
                    /\ json_is_boolean(json_object_get(root, "RedirOutput")))
             THEN fail
        ELSE [rc |-> 0,
              path |-> json_string_value(json_object_get(root, "Path")),
              args |-> json_object_get(root, "Args"),
              env |-> json_object_get(root, "Env"),
              redirInput |-> FlagInt(json_object_get(root, "RedirInput")),
              redirOutput |-> FlagInt(json_object_get(root, "RedirOutput"))]

json_unpack_ex(root) ==
    LET fail == [rc |-> -1, path |-> "", args |-> JNull, env |-> JNull,
                 redirInput |-> 0, redirOutput |-> 0]
    IN  IF ~json_is_object(root) THEN fail
        ELSE IF ~(HasKey(root, "Path") /\ json_is_string(json_object_get(root, "Path")))
             THEN fail
        ELSE IF ~HasKey(root, "Args") THEN fail
        ELSE IF ~HasKey(root, "Env") THEN fail
        ELSE IF ~(HasKey(root, "RedirInput")
                    /\ json_is_boolean(json_object_get(root, "RedirInput")))
             THEN fail
        ELSE LET ri == FlagInt(json_object_get(root, "RedirInput")) IN
             IF ~(HasKey(root, "RedirOutput")
                    /\ json_is_boolean(json_object_get(root, "RedirOutput")))
             THEN [fail EXCEPT !.redirInput = ri]
             ELSE LET ro == FlagInt(json_object_get(root, "RedirOutput")) IN
                  IF json_object_size(root) # 5
                  THEN [fail EXCEPT !.redirInput = ri, !.redirOutput = ro]
                  ELSE [rc |-> 0,
                        path |-> json_string_value(json_object_get(root, "Path")),
                        args |-> json_object_get(root, "Args"),
                        env |-> json_object_get(root, "Env"),
                        redirInput |-> ri, redirOutput |-> ro]

(* ---------------------------------------------------------------------- *)
(* loadReqCmd up to the call of recvFds: newReqCmd, the strict unpack,     *)
(* loadArgv, loadEnvp, chained by && so that each runs only after the      *)
(* previous one succeeded.  stage names the last conjunct evaluated.       *)
(* ---------------------------------------------------------------------- *)
(* Variant: the result of loadEnvp is not tested before recvFds *)
loadReqCmdDecode_EnvpUnchecked(H, root) ==
    LET c == newReqCmd(H)
        cmd == c.r
        u == json_unpack_ex(root)
        H0 == [c.H EXCEPT !.m[cmd].redirInput = u.redirInput,
                          !.m[cmd].redirOutput = u.redirOutput]
    IN  IF u.rc # 0
        THEN [H |-> H0, cmd |-> cmd, path |-> u.path, stage |-> "schema", ok |-> FALSE]
        ELSE LET a == loadArgv(H0, u.args)
                 H1 == [a.H EXCEPT !.m[cmd].argv = a.r]
             IN  IF a.r = NULL
                 THEN [H |-> H1, cmd |-> cmd, path |-> u.path, stage |-> "argv", ok |-> FALSE]
                 ELSE LET e == loadEnvp(H1, u.env)
                          H2 == [e.H EXCEPT !.m[cmd].envp = e.r]
                      IN  [H |-> H2, cmd |-> cmd, path |-> u.path,
                           stage |-> "recvFds", ok |-> TRUE]

loadReqCmdDecode(H, root) ==
    LET c == newReqCmd(H)
        cmd == c.r
        u == json_unpack_ex(root)
        H0 == [c.H EXCEPT !.m[cmd].redirInput = u.redirInput,
                          !.m[cmd].redirOutput = u.redirOutput]
    IN  IF u.rc # 0
        THEN [H |-> H0, cmd |-> cmd, path |-> u.path, stage |-> "schema", ok |-> FALSE]
        ELSE LET a == loadArgv(H0, u.args)
                 H1 == [a.H EXCEPT !.m[cmd].argv = a.r]
             IN  IF a.r = NULL
                 THEN [H |-> H1, cmd |-> cmd, path |-> u.path, stage |-> "argv", ok |-> FALSE]
                 ELSE LET e == loadEnvp(H1, u.env)
                          H2 == [e.H EXCEPT !.m[cmd].envp = e.r]
                      IN  IF e.r = NULL
                          THEN [H |-> H2, cmd |-> cmd, path |-> u.path,
                                stage |-> "envp", ok |-> FALSE]
                          ELSE [H |-> H2, cmd |-> cmd, path |-> u.path,
                                stage |-> "recvFds", ok |-> TRUE]

(* loadReqCmd after success has been computed.  closed is the set of       *)
(* descriptors it closes: there is no close in either branch              *)
(* Variant: a failure closes the input descriptor already received *)
loadReqCmdFinish_ClosesInput(H, cmd, path, success) ==
    IF success
    THEN LET d == strdup(H, path)
         IN  [H |-> [d.H EXCEPT !.m[cmd].path = d.r], r |-> cmd, closed |-> {}]
    ELSE [H |-> freeReqCmd(H, cmd), r |-> NULL,
          closed |-> IF H.m[cmd].redirInput # 0 THEN {H.m[cmd].input} ELSE {}]

loadReqCmdFinish(H, cmd, path, success) ==
    IF success
    THEN LET d == strdup(H, path)
         IN  [H |-> [d.H EXCEPT !.m[cmd].path = d.r], r |-> cmd, closed |-> {}]
    ELSE [H |-> freeReqCmd(H, cmd), r |-> NULL, closed |-> {}]

(* ---------------------------------------------------------------------- *)
(* recvFd: one recvmsg on the companion channel.  A message is             *)
(* [n, controllen, fd]: n is what recvmsg returns, controllen what it      *)
(* leaves in msg_controllen and fd the descriptor in the control data.     *)
(* ---------------------------------------------------------------------- *)
FdMsg(fd) == [n |-> 1, controllen |-> CONTROLLEN, fd |-> fd]
ShortMsg == [n |-> 1, controllen |-> 0, fd |-> 0]
EofMsg == [n |-> 0, controllen |-> 0, fd |-> 0]
ErrMsg == [n |-> -1, controllen |-> CONTROLLEN, fd |-> 0]

(* recvmsg(FdTubeFd, &msg, 0): the head of the queue, or end-of-file or an *)
(* error once the peer is gone                                             *)
recvmsg(tube) ==
    IF tube.q # <<>> THEN [tube |-> [tube EXCEPT !.q = Tail(@)], msg |-> Head(tube.q)]
    ELSE IF tube.st = "error" THEN [tube |-> tube, msg |-> ErrMsg]
    ELSE [tube |-> tube, msg |-> EofMsg]

(* Variant: a receive that returns at once on an empty channel *)
recvmsgReady_NonBlocking(tube) == TRUE

recvmsgReady(tube) == tube.q # <<>> \/ tube.st # "open"

(* Check_1 of common.h: a call that returned -1 has failed                 *)
Check_1(rc) == rc = -1

(* Variant: msg_controllen is not compared with CONTROLLEN *)
recvFd_NoLengthCheck(H, tube) ==
    LET c == malloc(H, [kind |-> "cmsg"])
        r == recvmsg(tube)
        fd == IF Check_1(r.msg.n) THEN -1 ELSE r.msg.fd
    IN  [H |-> free(c.H, c.r), tube |-> r.tube, fd |-> fd, msg |-> r.msg]

recvFd(H, tube) ==
    LET c == malloc(H, [kind |-> "cmsg"])
        r == recvmsg(tube)
        fd == IF Check_1(r.msg.n) THEN -1
              ELSE IF r.msg.controllen < CONTROLLEN THEN -1
              ELSE r.msg.fd
    IN  [H |-> free(c.H, c.r), tube |-> r.tube, fd |-> fd, msg |-> r.msg]

(* recvFds as the sequence of its two guarded receives: at is the place    *)
(* in the function, the result the place of the next receive or the        *)
(* return value                                                            *)
(* Variant: a failed input receive does not return *)
recvFds_NoEarlyReturn(c, at) ==
    CASE at = "entry" ->
           IF c.redirInput # 0 THEN "recvInput"
           ELSE IF c.redirOutput # 0 THEN "recvOutput" ELSE "return0"
      [] at = "recvInput" ->
           IF c.redirOutput # 0 THEN "recvOutput"
           ELSE IF c.input < 0 THEN "return-1" ELSE "return0"
      [] at = "recvOutput" ->
           IF c.output < 0 \/ (c.redirInput # 0 /\ c.input < 0)
           THEN "return-1" ELSE "return0"

(* Variant: the output receive is not guarded by redirOutput *)
recvFds_OutputUnguarded(c, at) ==
    CASE at = "entry" ->
           IF c.redirInput # 0 THEN "recvInput" ELSE "recvOutput"
      [] at = "recvInput" ->
           IF c.input < 0 THEN "return-1" ELSE "recvOutput"
      [] at = "recvOutput" ->
           IF c.output < 0 THEN "return-1" ELSE "return0"

recvFds(c, at) ==
    CASE at = "entry" ->
           IF c.redirInput # 0 THEN "recvInput"
           ELSE IF c.redirOutput # 0 THEN "recvOutput" ELSE "return0"
      [] at = "recvInput" ->
           IF c.input < 0 THEN "return-1"
           ELSE IF c.redirOutput # 0 THEN "recvOutput" ELSE "return0"
      [] at = "recvOutput" ->
           IF c.output < 0 THEN "return-1" ELSE "return0"

(* ---------------------------------------------------------------------- *)
(* loadReq: dispatch on the first enumerated key                           *)
(* ---------------------------------------------------------------------- *)
(* Variant: the value of the first key is dispatched whatever the key *)
loadReq_AnyKey(root) ==
    IF ~json_is_object(root) THEN [to |-> "notobject", value |-> JNull]
    ELSE IF json_object_size(root) = 0 THEN [to |-> "empty", value |-> JNull]
    ELSE [to |-> "loadReqCmd", value |-> root.v[1].v]

(* Variant: the key "Cmd" is looked up among all the keys *)
loadReq_FindCmd(root) ==
    IF ~json_is_object(root) THEN [to |-> "notobject", value |-> JNull]
    ELSE IF json_object_size(root) = 0 THEN [to |-> "empty", value |-> JNull]
    ELSE IF HasKey(root, "Cmd")
         THEN [to |-> "loadReqCmd", value |-> json_object_get(root, "Cmd")]
    ELSE [to |-> "badtype", value |-> JNull]

loadReq(root) ==
    IF ~json_is_object(root) THEN [to |-> "notobject", value |-> JNull]
    ELSE IF json_object_size(root) = 0 THEN [to |-> "empty", value |-> JNull]
    ELSE IF root.v[1].k = "Cmd" THEN [to |-> "loadReqCmd", value |-> root.v[1].v]
    ELSE [to |-> "badtype", value |-> JNull]

(* ---------------------------------------------------------------------- *)
(* The control stream and json_loadf(TubeFile, JSON_DISABLE_EOF_CHECK)     *)
(* An item of the stream is the text of one document: one that parses to   *)
(* the value v, or one the parser rejects at line with text; toEof says    *)
(* that the parser runs into the end of the stream while reading it.       *)
(* ---------------------------------------------------------------------- *)
Doc(v) == [ok |-> TRUE, v |-> v]
BadDoc(line, text, toEof) == [ok |-> FALSE, line |-> line, text |-> text, toEof |-> toEof]
NoDoc == BadDoc(0, "", FALSE)
EofText == "'[' or '{' expected near end of file"

(* Variant: the peer having closed the stream counts as end of file *)
feof_OnClose(f) == f.eof \/ f.closed

(* Variant: the end of the data is looked for, not the indicator *)
feof_AtEndOfData(f) == f.eof \/ (f.closed /\ f.buf = <<>>)

feof(f) == f.eof

json_decref(H, root) == free(H, root)

json_loadf(H, f) ==
    IF f.buf = <<>>
    THEN [H |-> H, f |-> [f EXCEPT !.eof = TRUE], root |-> NULL,
          error |-> [line |-> 1, text |-> EofText], item |-> NoDoc, used |-> 0]
    ELSE LET it == Head(f.buf) IN
         IF it.ok
         THEN LET r == malloc(H, [kind |-> "json", v |-> it.v])
              IN  [H |-> r.H, f |-> [f EXCEPT !.buf = Tail(@)], root |-> r.r,
                   error |-> [line |-> 0, text |-> ""], item |-> it, used |-> 1]
         ELSE IF it.toEof
         THEN [H |-> H, f |-> [f EXCEPT !.buf = <<>>, !.eof = TRUE], root |-> NULL,
               error |-> [line |-> it.line, text |-> it.text], item |-> it,
               used |-> Len(f.buf)]
         ELSE [H |-> H, f |-> [f EXCEPT !.buf = Tail(@)], root |-> NULL,
               error |-> [line |-> it.line, text |-> it.text], item |-> it, used |-> 1]

ParseFailedMsg(error) ==
    "json: error on line " \o ToString(error.line) \o ": " \o error.text
MalformedMsg == "json: command doesn't conform to schema"

(* RecvReq from json_decref(root) to the return                            *)
(* Variant: *err is not set when loadReq fails *)
RecvReqFinish_NoErr(H, root, cmd) ==
    [H |-> json_decref(H, root), ret |-> cmd, err |-> NULL]

RecvReqFinish(H, root, cmd) ==
    LET H1 == json_decref(H, root)
    IN  IF cmd = NULL
        THEN LET d == strdup(H1, MalformedMsg)
             IN  [H |-> d.H, ret |-> cmd, err |-> d.r]
        ELSE [H |-> H1, ret |-> cmd, err |-> NULL]

(* ---------------------------------------------------------------------- *)
(* Documents the peer may write on the control stream                      *)
(* ---------------------------------------------------------------------- *)
GoodArgs == JArr(<<JStr("ls"), JStr("-l")>>)
GoodEnv == JObj(<<KV("A", JStr("1")), KV("B", JStr("2"))>>)

CmdValue(path, args, env, ri, ro) ==
    JObj(<<KV("Path", path), KV("Args", args), KV("Env", env),
           KV("RedirInput", ri), KV("RedirOutput", ro)>>)

CmdDoc(value) == Doc(JObj(<<KV("Cmd", value)>>))

GoodCmd(ri, ro) == CmdValue(JStr("/bin/ls"), GoodArgs, GoodEnv, JBool(ri), JBool(ro))

ValidDocs == {CmdDoc(GoodCmd(ri, ro)) : ri \in BOOLEAN, ro \in BOOLEAN}

ArgvBadDoc ==
    CmdDoc(CmdValue(JStr("/bin/ls"), JArr(<<JStr("ls"), JInt(1), JStr("x")>>),
                    GoodEnv, JBool(TRUE), JBool(TRUE)))
EnvpBadDoc ==
    CmdDoc(CmdValue(JStr("/bin/ls"), GoodArgs,
                    JObj(<<KV("A", JStr("1")), KV("B", JInt(2))>>),
                    JBool(TRUE), JBool(FALSE)))
FooDoc == Doc(JObj(<<KV("Foo", JObj(<<>>))>>))
GarbageDoc == BadDoc(1, "invalid token near '%'", FALSE)
PartialDoc == BadDoc(2, "unexpected end of file", TRUE)

(* Documents of the request loop: the well-formed requests, requests       *)
(* rejected after their flags were read, an unknown request, and bytes     *)
(* that are no document                                                    *)
DocPool == ValidDocs \cup {ArgvBadDoc, EnvpBadDoc, FooDoc, GarbageDoc}

(* What the peer sends on the companion channel for a document: one       *)
(* message per Redir flag that is true in it, input before output         *)
DocCmd(d) ==
    IF d.ok /\ json_is_object(d.v) /\ json_object_size(d.v) > 0
         /\ d.v.v[1].k = "Cmd" /\ json_is_object(d.v.v[1].v)
    THEN d.v.v[1].v ELSE JObj(<<>>)
DocFlag(d, key) ==
    /\ HasKey(DocCmd(d), key)
    /\ json_object_get(DocCmd(d), key) = JBool(TRUE)
InFd(i) == 2 * i + 1
OutFd(i) == 2 * i + 2
DocSlots(d, i) ==
    (IF DocFlag(d, "RedirInput") THEN <<InFd(i)>> ELSE <<>>)
      \o (IF DocFlag(d, "RedirOutput") THEN <<OutFd(i)>> ELSE <<>>)

(* ---------------------------------------------------------------------- *)
(* State                                                                   *)
(* ---------------------------------------------------------------------- *)
VARIABLES
    TubeFile,   \* control stream: unread items, read position, closed, feof
    FdTubeFd,   \* companion channel: messages in flight and its state
    heap,       \* the C heap of the server
    openFds,    \* descriptors open in the server
    pc,         \* where the caller of RecvReq stands
    frame,      \* locals of a RecvReq call suspended in recvmsg
    ret,        \* what RecvReq returned
    err,        \* the caller's char *err
    sender,     \* the peer: documents written, messages still to send
    call        \* record of the current (or last) RecvReq call

vars == <<TubeFile, FdTubeFd, heap, openFds, pc, frame, ret, err, sender, call>>

NoFrame == [root |-> NULL, cmd |-> NULL, path |-> ""]
NoCall == [atEof |-> FALSE, noData |-> FALSE, parsed |-> FALSE, item |-> NoDoc,
           idx |-> 0, stage |-> "none", log |-> <<>>]

Init ==
    /\ TubeFile = [buf |-> <<>>, pos |-> 0, closed |-> FALSE, eof |-> FALSE]
    /\ FdTubeFd = [q |-> <<>>, st |-> "open"]
    /\ heap = EmptyHeap
    /\ openFds = {}
    /\ pc = "idle"
    /\ frame = NoFrame
    /\ ret = NULL
    /\ err = NULL
    /\ sender = [n |-> 0, pending |-> <<>>, wf |-> TRUE]
    /\ call = NoCall

(* ---------------------------------------------------------------------- *)
(* The peer                                                                *)
(* ---------------------------------------------------------------------- *)
SendDoc ==
    /\ sender.n < MaxDocs
    /\ sender.pending = <<>>
    /\ ~TubeFile.closed
    /\ Len(TubeFile.buf) < MaxQueue
    /\ \E d \in DocPool :
         /\ TubeFile' = [TubeFile EXCEPT !.buf = Append(@, d)]
         /\ sender' = [sender EXCEPT !.n = @ + 1,
                                     !.pending = DocSlots(d, sender.n + 1)]
    /\ UNCHANGED <<FdTubeFd, heap, openFds, pc, frame, ret, err, call>>

(* The next descriptor goes out, in a well-formed message or in one       *)
(* without control data                                                    *)
SendFd ==
    /\ sender.pending # <<>>
    /\ FdTubeFd.st = "open"
    /\ Len(FdTubeFd.q) < MaxMsgs
    /\ \E good \in BOOLEAN :
         /\ FdTubeFd' = [FdTubeFd EXCEPT !.q =
                Append(@, IF good THEN FdMsg(Head(sender.pending)) ELSE ShortMsg)]
         /\ sender' = [sender EXCEPT !.pending = Tail(@), !.wf = @ /\ good]
    /\ UNCHANGED <<TubeFile, heap, openFds, pc, frame, ret, err, call>>

(* The peer goes away: it closes the control stream, possibly in the      *)
(* middle of a document, and sends nothing more                            *)
CloseTube ==
    /\ ~TubeFile.closed
    /\ \E partial \in BOOLEAN :
         TubeFile' = [TubeFile EXCEPT !.closed = TRUE,
                        !.buf = IF partial THEN Append(@, PartialDoc) ELSE @]
    /\ sender' = [sender EXCEPT !.pending = <<>>,
                                !.wf = @ /\ sender.pending = <<>>]
    /\ UNCHANGED <<FdTubeFd, heap, openFds, pc, frame, ret, err, call>>

(* ... and its end of the companion channel is shut down or breaks         *)
CloseFdTube ==
    /\ FdTubeFd.st = "open"
    /\ TubeFile.closed
    /\ \E st \in {"closed", "error"} :
         FdTubeFd' = [FdTubeFd EXCEPT !.st = st]
    /\ UNCHANGED <<TubeFile, heap, openFds, pc, frame, ret, err, sender, call>>

(* ---------------------------------------------------------------------- *)
(* The server: RecvReq                                                     *)
(* ---------------------------------------------------------------------- *)
Return(H, r, e, fds) ==
    /\ heap' = H
    /\ openFds' = fds
    /\ ret' = r
    /\ err' = e
    /\ pc' = "returned"
    /\ frame' = NoFrame

(* From the result of recvFds on: block in the next recvmsg, or finish     *)
(* loadReqCmd and RecvReq                                                  *)
Continue(H, root, cmd, path, at, fds) ==
    IF at \in {"recvInput", "recvOutput"}
    THEN /\ heap' = H
         /\ openFds' = fds
         /\ pc' = at
         /\ frame' = [root |-> root, cmd |-> cmd, path |-> path]
         /\ UNCHANGED <<ret, err>>
    ELSE LET f == loadReqCmdFinish(H, cmd, path, at = "return0")
             r == RecvReqFinish(f.H, root, f.r)
         IN  Return(r.H, r.ret, r.err, fds \ f.closed)

RecvReq ==
    /\ pc = "idle"
    /\ feof(TubeFile) \/ TubeFile.buf # <<>> \/ TubeFile.closed
    /\ IF feof(TubeFile)
       THEN LET e == newReqExit(heap)
            IN  /\ Return(e.H, e.r, err, openFds)
                /\ call' = [NoCall EXCEPT !.atEof = TRUE, !.noData = TRUE]
                /\ UNCHANGED TubeFile
       ELSE LET l == json_loadf(heap, TubeFile)
                c0 == [NoCall EXCEPT !.noData = (TubeFile.buf = <<>>),
                                     !.parsed = TRUE, !.item = l.item,
                                     !.idx = TubeFile.pos + 1]
            IN  /\ TubeFile' = [l.f EXCEPT !.pos = @ + l.used]
                /\ IF l.root = NULL
                   THEN LET d == strdup(l.H, ParseFailedMsg(l.error))
                        IN  /\ Return(d.H, NULL, d.r, openFds)
                            /\ call' = [c0 EXCEPT !.stage = "parse"]
                   ELSE LET d == loadReq(l.H.m[l.root].v) IN
                        IF d.to # "loadReqCmd"
                        THEN LET r == RecvReqFinish(l.H, l.root, NULL)
                             IN  /\ Return(r.H, r.ret, r.err, openFds)
                                 /\ call' = [c0 EXCEPT !.stage = d.to]
                        ELSE LET c == loadReqCmdDecode(l.H, d.value) IN
                             /\ call' = [c0 EXCEPT !.stage = c.stage]
                             /\ Continue(c.H, l.root, c.cmd, c.path,
                                         IF c.ok THEN recvFds(c.H.m[c.cmd], "entry")
                                         ELSE "return-1",
                                         openFds)
    /\ UNCHANGED <<FdTubeFd, sender>>

(* One recvFd of recvFds returns: slot is the field it is assigned to      *)
Receive(slot) ==
    /\ recvmsgReady(FdTubeFd)
    /\ LET r == recvFd(heap, FdTubeFd)
           H == IF slot = "recvInput"
                THEN [r.H EXCEPT !.m[frame.cmd].input = r.fd]
                ELSE [r.H EXCEPT !.m[frame.cmd].output = r.fd]
       IN  /\ FdTubeFd' = r.tube
           /\ call' = [call EXCEPT !.log = Append(@, [slot |-> slot, fd |-> r.fd,
                                                      taken |-> FdTubeFd.q # <<>>])]
           /\ Continue(H, frame.root, frame.cmd, frame.path,
                       recvFds(H.m[frame.cmd], slot),
                       IF r.msg.n > 0 /\ r.msg.controllen >= CONTROLLEN
                       THEN openFds \cup {r.msg.fd} ELSE openFds)
    /\ UNCHANGED <<TubeFile, sender>>

RecvInput ==
    /\ pc = "recvInput"
    /\ Receive("recvInput")

RecvOutput ==
    /\ pc = "recvOutput"
    /\ Receive("recvOutput")

(* The caller is done with the result: FreeReq on a request, free on the   *)
(* error message                                                           *)
Release ==
    /\ pc = "returned"
    /\ heap' = IF ret # NULL THEN FreeReq(heap, ret) ELSE free(heap, err)
    /\ ret' = NULL
    /\ err' = NULL
    /\ pc' = "idle"
    /\ call' = NoCall
    /\ UNCHANGED <<TubeFile, FdTubeFd, openFds, frame, sender>>

Next ==
    \/ SendDoc
    \/ SendFd
    \/ CloseTube
    \/ CloseFdTube
    \/ RecvReq
    \/ RecvInput
    \/ RecvOutput
    \/ Release

Spec == Init /\ [][Next]_vars

(* ---------------------------------------------------------------------- *)
(* Decoding one document of any shape: the peer has written one document   *)
(* and some messages and is gone.  The documents are the well-formed Cmd   *)
(* requests, each with at most one field missing, mistyped or malformed or *)
(* with one extra field, and the other shapes of a request.                *)
(* ---------------------------------------------------------------------- *)
PathChoices == {<<KV("Path", JStr("/bin/ls"))>>, <<KV("Path", JInt(1))>>, <<>>}
ArgsChoices ==
    {<<KV("Args", GoodArgs)>>, <<KV("Args", JArr(<<>>))>>,
     <<KV("Args", JArr(<<JStr("ls"), JInt(1), JStr("x")>>))>>,
     <<KV("Args", JArr(<<JNull>>))>>, <<KV("Args", JStr("ls"))>>, <<>>}
EnvChoices ==
    {<<KV("Env", GoodEnv)>>, <<KV("Env", JObj(<<>>))>>,
     <<KV("Env", JObj(<<KV("B", JStr("2")), KV("A", JStr("1"))>>))>>,
     <<KV("Env", JObj(<<KV("A", JStr("1")), KV("B", JInt(2))>>))>>,
     <<KV("Env", JObj(<<KV("A", JBool(TRUE))>>))>>,
     <<KV("Env", JArr(<<>>))>>, <<>>}
FlagChoices(key) ==
    {<<KV(key, JBool(TRUE))>>, <<KV(key, JBool(FALSE))>>, <<KV(key, JInt(1))>>, <<>>}
ExtraChoices == {<<>>, <<KV("Extra", JNull)>>}

Usual(f) ==
    f \in {<<KV("Path", JStr("/bin/ls"))>>, <<KV("Args", GoodArgs)>>,
           <<KV("Env", GoodEnv)>>, <<>>}
      \cup {<<KV(key, JBool(b))>> : key \in {"RedirInput", "RedirOutput"}, b \in BOOLEAN}
Unusual(f) == IF Usual(f) THEN 0 ELSE 1

ShapeCmds ==
    { JObj(p \o a \o e \o i \o o \o x) :
        <<p, a, e, i, o, x>> \in
          { t \in PathChoices \X ArgsChoices \X EnvChoices \X FlagChoices("RedirInput")
                    \X FlagChoices("RedirOutput") \X ExtraChoices :
              (IF t[1] = <<>> THEN 1 ELSE Unusual(t[1]))
                + (IF t[2] = <<>> THEN 1 ELSE Unusual(t[2]))
                + (IF t[3] = <<>> THEN 1 ELSE Unusual(t[3]))
                + (IF t[4] = <<>> THEN 1 ELSE Unusual(t[4]))
                + (IF t[5] = <<>> THEN 1 ELSE Unusual(t[5]))
                + (IF t[6] = <<>> THEN 0 ELSE 1) <= 1 } }

ShapeDocs ==
    {CmdDoc(c) : c \in ShapeCmds}
      \cup { CmdDoc(JArr(<<>>)), CmdDoc(JNull), Doc(JObj(<<>>)), FooDoc,
             Doc(JArr(<<>>)),
             Doc(JObj(<<KV("Cmd", GoodCmd(TRUE, FALSE)), KV("Foo", JObj(<<>>))>>)),
             Doc(JObj(<<KV("Foo", JObj(<<>>)), KV("Cmd", GoodCmd(TRUE, FALSE))>>)),
             GarbageDoc }

MsgChoices == {FdMsg(InFd(1)), FdMsg(OutFd(1)), ShortMsg}

InitDecode ==
    /\ \E d \in ShapeDocs :
         TubeFile = [buf |-> <<d>>, pos |-> 0, closed |-> TRUE, eof |-> FALSE]
    /\ \E n \in 0..MaxMsgs, st \in {"open", "closed", "error"} :
         \E q \in [1..n -> MsgChoices] : FdTubeFd = [q |-> q, st |-> st]
    /\ heap = EmptyHeap
    /\ openFds = {}
    /\ pc = "idle"
    /\ frame = NoFrame
    /\ ret = NULL
    /\ err = NULL
    /\ sender = [n |-> 1, pending |-> <<>>, wf |-> FALSE]
    /\ call = NoCall

NextDecode ==
    \/ RecvReq
    \/ RecvInput
    \/ RecvOutput
    \/ Release

SpecDecode == InitDecode /\ [][NextDecode]_vars

TypeOK ==
    /\ pc \in {"idle", "recvInput", "recvOutput", "returned"}
    /\ ~heap.bad

(* ---------------------------------------------------------------------- *)
(* Vocabulary of the properties                                            *)
(* ---------------------------------------------------------------------- *)
Returned == pc = "returned"
RetIsCmd == ret # NULL /\ heap.m[ret].type = REQ_TYPE_CMD
RetIsExit == ret # NULL /\ heap.m[ret].type = REQ_TYPE_EXIT
CmdStages == {"schema", "argv", "envp", "recvFds"}
FlagIn == DocFlag(call.item, "RedirInput")
FlagOut == DocFlag(call.item, "RedirOutput")
NFlags == (IF FlagIn THEN 1 ELSE 0) + (IF FlagOut THEN 1 ELSE 0)
Consumed == Cardinality({i \in 1..Len(call.log) : call.log[i].taken})
Received(slot, fd) ==
    \E i \in 1..Len(call.log) :
        call.log[i].slot = slot /\ call.log[i].fd = fd /\ call.log[i].taken
IsLiveStr(a) == a \in Live(heap) /\ heap.m[a].kind = "str"
IsLivePtrs(a) == a \in Live(heap) /\ heap.m[a].kind = "ptrs"

(* ---------------------------------------------------------------------- *)
(* C1: a Cmd handed to the caller is fully populated (path, argv, envp     *)
(* non-null, and for each true redirect flag a descriptor >= 0 that was    *)
(* received in this call); every other outcome of decoding a "Cmd"         *)
(* document returns null.                                                  *)
(* ---------------------------------------------------------------------- *)
CmdPopulated(c) ==
    /\ IsLiveStr(c.path)
    /\ IsLivePtrs(c.argv)
    /\ IsLivePtrs(c.envp)
    /\ c.redirInput # 0 =>
          c.input >= 0 /\ c.input \in openFds /\ Received("recvInput", c.input)
    /\ c.redirOutput # 0 =>
          c.output >= 0 /\ c.output \in openFds /\ Received("recvOutput", c.output)

C1_CmdFullyPopulated ==
    /\ (Returned /\ RetIsCmd) => CmdPopulated(heap.m[ret])
    /\ (Returned /\ call.stage \in CmdStages) => (ret = NULL \/ RetIsCmd)

C1_Witness ==
    /\ Returned /\ RetIsCmd
    /\ heap.m[ret].redirInput = 1 /\ heap.m[ret].redirOutput = 1
    /\ {heap.m[ret].input, heap.m[ret].output} \subseteq openFds

(* ---------------------------------------------------------------------- *)
(* C2: within one decode the receive for input precedes the receive for    *)
(* output, and after a failed input receive (fd < 0) no receive for output *)
(* is performed.                                                           *)
(* ---------------------------------------------------------------------- *)
C2_InputBeforeOutput ==
    /\ \A i \in 1..Len(call.log) :
         call.log[i].slot = "recvOutput" =>
            /\ \A j \in 1..Len(call.log) : j > i => call.log[j].slot # "recvInput"
            /\ FlagIn => (i = 2 /\ call.log[1].slot = "recvInput"
                                /\ call.log[1].fd >= 0)
    /\ (Len(call.log) >= 1 /\ call.log[1].slot = "recvInput" /\ call.log[1].fd < 0)
         => (Len(call.log) = 1 /\ pc # "recvOutput")

C2_Witness ==
    /\ Returned /\ FlagIn /\ FlagOut
    /\ call.log = <<[slot |-> "recvInput", fd |-> -1, taken |-> TRUE]>>
    /\ FdTubeFd.q # <<>>

(* ---------------------------------------------------------------------- *)
(* C3: no receive on the companion channel happens unless the strict       *)
(* unpack, loadArgv and loadEnvp have all succeeded for the document; a    *)
(* document failing at one of these stages consumes no message.            *)
(* ---------------------------------------------------------------------- *)
DecodesUpToRecvFds(item) ==
    /\ item.ok
    /\ loadReq(item.v).to = "loadReqCmd"
    /\ LET u == json_unpack_ex(loadReq(item.v).value)
       IN  /\ u.rc = 0
           /\ loadArgv(EmptyHeap, u.args).r # NULL
           /\ loadEnvp(EmptyHeap, u.env).r # NULL

C4_DescriptorsOfSameCmd ==
    (Returned /\ RetIsCmd /\ sender.wf) =>
        /\ heap.m[ret].redirInput # 0 => heap.m[ret].input = InFd(call.idx)
        /\ heap.m[ret].redirOutput # 0 => heap.m[ret].output = OutFd(call.idx)

(* ---------------------------------------------------------------------- *)
(* C5: a call that returns a Cmd has consumed exactly as many messages as  *)
(* the document has true Redir flags, and no call consumes more than two.  *)
(* ---------------------------------------------------------------------- *)
C5_ConsumesOnePerFlag ==
    /\ (Returned /\ RetIsCmd) => (Consumed = NFlags /\ Len(call.log) = NFlags)
    /\ Consumed <= 2 /\ Len(call.log) <= 2

C5_Witness ==
    /\ Returned /\ RetIsCmd
    /\ ~FlagIn /\ FlagOut /\ Consumed = 1
    /\ FdTubeFd.q # <<>>

(* ---------------------------------------------------------------------- *)
(* C6: a call on a control stream with no remaining data returns Exit,     *)
(* without a parse attempt and without an error.                           *)
(* ---------------------------------------------------------------------- *)
C6_ExitWhenNoData ==
    (Returned /\ call.noData) => (RetIsExit /\ ~call.parsed /\ err = NULL)

(* ---------------------------------------------------------------------- *)
(* C7: Exit is returned only when the control stream is exhausted, never   *)
(* while unread documents remain on it.                                    *)
(* ---------------------------------------------------------------------- *)
C7_ExitOnlyWhenExhausted ==
    (Returned /\ RetIsExit) => (TubeFile.buf = <<>> /\ TubeFile.closed)

C7_Witness == Returned /\ RetIsExit /\ TubeFile.pos = 2

(* ---------------------------------------------------------------------- *)
(* C8: a failed decode frees everything it built, each block once: after   *)
(* a failed RecvReq only the error message is live, and no free ever hit   *)
(* a block that was not live.                                              *)
(* ---------------------------------------------------------------------- *)
LoaderCleansUp(item) ==
    (item.ok /\ loadReq(item.v).to = "loadReqCmd"
        /\ json_unpack_ex(loadReq(item.v).value).rc = 0) =>
        LET u == json_unpack_ex(loadReq(item.v).value)
            a == loadArgv(EmptyHeap, u.args)
            e == loadEnvp(EmptyHeap, u.env)
        IN  /\ a.r = NULL => a.H = EmptyHeap
            /\ e.r = NULL => e.H = EmptyHeap

C8_FailedDecodeFreesAll ==
    /\ ~heap.bad
    /\ (Returned /\ ret = NULL) => Live(heap) = {err}
    /\ LoaderCleansUp(call.item)

C8_Witness ==
    /\ Returned /\ ret = NULL /\ call.stage = "recvFds"
    /\ Len(call.log) = 2
    /\ Live(heap) = {err}

(* ---------------------------------------------------------------------- *)
(* C9: RecvReq returns null exactly when it sets *err; a parser failure    *)
(* gives the message with the parser's line and text, every later failure  *)
(* the generic message, and the two never coincide.                        *)
(* ---------------------------------------------------------------------- *)
ParserLine == IF call.noData THEN 1 ELSE call.item.line
ParserText == IF call.noData THEN EofText ELSE call.item.text

C9_ErrorReporting ==
    Returned =>
        /\ (ret = NULL) <=> (err # NULL)
        /\ err # NULL => IsLiveStr(err)
        /\ (ret = NULL /\ call.stage = "parse") =>
              heap.m[err].s = "json: error on line " \o ToString(ParserLine)
                                 \o ": " \o ParserText
        /\ (ret = NULL /\ call.stage # "parse") =>
              /\ heap.m[err].s = "json: command doesn't conform to schema"
              /\ call.stage \in {"notobject", "empty", "badtype"} \cup CmdStages

C9_Witness ==
    /\ Returned /\ ret = NULL
    /\ call.item = GarbageDoc
    /\ heap.m[err].s = "json: error on line 1: invalid token near '%'"

(* ---------------------------------------------------------------------- *)
(* C10: a failed descriptor transfer is reported to the caller with an     *)
(* outcome distinct from the one of a schema violation.                    *)
(* ---------------------------------------------------------------------- *)
C10_TransferFailedDistinct ==
    (Returned /\ ret = NULL /\ call.stage = "recvFds") =>
        heap.m[err].s # MalformedMsg

(* ---------------------------------------------------------------------- *)
(* C11: a parsed object with no key is rejected as an empty request, one   *)
(* whose single key is not "Cmd" as an unknown kind of request, and in     *)
(* both cases loadReqCmd is not entered: no Cmd is allocated and no        *)
(* message is consumed.  With the single key "Cmd" the value goes to       *)
(* loadReqCmd and its result is what is returned.                          *)
(* ---------------------------------------------------------------------- *)
RejectedAs(stage) ==
    /\ call.stage = stage
    /\ ret = NULL
    /\ call.log = <<>>
    /\ Live(heap) = {err}

C11_DispatchOnKey ==
    (Returned /\ call.parsed /\ call.item.ok /\ json_is_object(call.item.v)) =>
        LET root == call.item.v IN
        /\ json_object_size(root) = 0 => RejectedAs("empty")
        /\ (json_object_size(root) = 1 /\ root.v[1].k # "Cmd") => RejectedAs("badtype")
        /\ (json_object_size(root) = 1 /\ root.v[1].k = "Cmd") =>
              /\ call.stage \in CmdStages
              /\ RetIsCmd <=> (/\ call.stage = "recvFds"
                               /\ \A i \in 1..Len(call.log) : call.log[i].fd >= 0)
              /\ ~RetIsCmd => ret = NULL

C11_Witness ==
    /\ Returned /\ call.item = FooDoc
    /\ RejectedAs("badtype")
    /\ FdTubeFd.q # <<>>

(* ---------------------------------------------------------------------- *)
(* C12: a Cmd value whose two redirect flags are not true decodes exactly  *)
(* when it is an object with the five fields Path (string), Args (array    *)
(* of strings), Env (object with string values), RedirInput and            *)
(* RedirOutput (booleans) and no other field; one missing, extra or        *)
(* mistyped field makes the decoding fail before any descriptor transfer.  *)
(* ---------------------------------------------------------------------- *)
CmdFields == {"Path", "Args", "Env", "RedirInput", "RedirOutput"}

WellFormedCmd(c) ==
    /\ c.t = "object"
    /\ Len(c.v) = 5
    /\ {c.v[i].k : i \in 1..Len(c.v)} = CmdFields
    /\ \A i \in 1..Len(c.v) :
         LET x == c.v[i].v IN
         CASE c.v[i].k = "Path" -> x.t = "string"
           [] c.v[i].k = "Args" ->
                x.t = "array" /\ \A j \in 1..Len(x.v) : x.v[j].t = "string"
           [] c.v[i].k = "Env" ->
                x.t = "object" /\ \A j \in 1..Len(x.v) : x.v[j].v.t = "string"
           [] OTHER -> x.t = "bool"

IsCmdRequest(item) ==
    /\ item.ok
    /\ item.v.t = "object" /\ Len(item.v.v) = 1
    /\ item.v.v[1].k = "Cmd"

C12_StrictSchema ==
    (Returned /\ call.parsed /\ IsCmdRequest(call.item) /\ ~FlagIn /\ ~FlagOut) =>
        /\ RetIsCmd <=> WellFormedCmd(call.item.v.v[1].v)
        /\ ~RetIsCmd => /\ ret = NULL
                        /\ call.stage \in {"schema", "argv", "envp"}
                        /\ call.log = <<>>

C12_Witness ==
    /\ Returned /\ IsCmdRequest(call.item) /\ ~FlagIn /\ ~FlagOut
    /\ json_is_object(call.item.v.v[1].v)
    /\ HasKey(call.item.v.v[1].v, "Extra")
    /\ ret = NULL /\ call.stage = "schema"

(* ---------------------------------------------------------------------- *)
(* C13: FreeReq on a Cmd frees the path, every string of argv and envp,    *)
(* the two arrays and the Cmd itself, each once, and closes no descriptor: *)
(* the open descriptors are the same before and after, the Cmd's own       *)
(* among them.                                                             *)
(* ---------------------------------------------------------------------- *)
StrPtrs(H, a) == {H.m[a].p[i] : i \in 1..Len(H.m[a].p)} \ {NULL}

CmdBlocks(H, p) ==
    {p, H.m[p].path, H.m[p].argv, H.m[p].envp}
        \cup StrPtrs(H, H.m[p].argv) \cup StrPtrs(H, H.m[p].envp)

C13_FreeReqKeepsDescriptors ==
    [][(pc = "returned" /\ RetIsCmd /\ pc' = "idle") =>
          /\ Cardinality(CmdBlocks(heap, ret))
                = 2 + Len(heap.m[heap.m[ret].argv].p) + Len(heap.m[heap.m[ret].envp].p)
          /\ CmdBlocks(heap, ret) \subseteq Live(heap)
          /\ Live(heap') = Live(heap) \ CmdBlocks(heap, ret)
          /\ ~heap'.bad
          /\ openFds' = openFds
          /\ heap.m[ret].redirInput # 0 => heap.m[ret].input \in openFds'
          /\ heap.m[ret].redirOutput # 0 => heap.m[ret].output \in openFds'
      ]_vars

C13_Witness ==
    /\ pc = "idle" /\ TubeFile.pos = 1 /\ ~TubeFile.eof
    /\ Live(heap) = {} /\ ~heap.bad
    /\ openFds = {InFd(1), OutFd(1)}

(* ---------------------------------------------------------------------- *)
(* C14: in every returned Cmd the descriptor field of a redirection that   *)
(* was not requested holds an invalid value, not a usable descriptor.      *)
(* ---------------------------------------------------------------------- *)
C14_UnrequestedDescriptorInvalid ==
    (Returned /\ RetIsCmd) =>
        /\ heap.m[ret].redirInput = 0 => heap.m[ret].input < 0
        /\ heap.m[ret].redirOutput = 0 => heap.m[ret].output < 0

(* ---------------------------------------------------------------------- *)
(* The request loop with a peer that sends each descriptor it owes while  *)
(* it lives, and a receiver whose blocking recvmsg returns once a message, *)
(* the end of file or an error is there: weak fairness of RecvInput and    *)
(* RecvOutput, written with their enabling condition.                      *)
(* ---------------------------------------------------------------------- *)
InRecvmsg == pc \in {"recvInput", "recvOutput"}

SpecFair ==
    /\ Init /\ [][Next]_vars
    /\ WF_vars(SendFd)
    /\ []<>(~(InRecvmsg /\ recvmsgReady(FdTubeFd)))

(* The channel is open and empty and the peer owes no message              *)
Starved == InRecvmsg /\ FdTubeFd.q = <<>> /\ FdTubeFd.st = "open" /\ sender.pending = <<>>

(* ---------------------------------------------------------------------- *)
(* C15, as stated: a call on a schema-valid Cmd document with RedirInput   *)
(* true returns only after it has received a message from the companion    *)
(* channel.                                                                *)
(* ---------------------------------------------------------------------- *)
C15_ReturnOnlyAfterMessage ==
    (Returned /\ DecodesUpToRecvFds(call.item) /\ FlagIn) =>
        (call.log # <<>> /\ call.log[1].taken)

(* ---------------------------------------------------------------------- *)
(* C15, amended: such a call returns only after a recvmsg on the companion *)
(* channel has returned, with a message or, once the peer has shut the     *)
(* channel down, with end-of-file or an error.  While the channel is open  *)
(* and empty the call stays in recvmsg: there is no timeout.  A call in    *)
(* recvmsg eventually returns unless the peer stops owing messages while   *)
(* the channel stays open and empty.                                       *)
(* ---------------------------------------------------------------------- *)
C15_BlocksUntilChannelDelivers ==
    /\ []((Returned /\ DecodesUpToRecvFds(call.item) /\ FlagIn) =>
            /\ call.log # <<>>
            /\ call.log[1].slot = "recvInput"
            /\ call.log[1].taken \/ FdTubeFd.st # "open")
    /\ [][(InRecvmsg /\ FdTubeFd.q = <<>> /\ FdTubeFd.st = "open") => pc' = pc]_vars
    /\ InRecvmsg ~> (Returned \/ Starved)

C15_Witness ==
    /\ Returned /\ RetIsCmd
    /\ FlagIn /\ ~FlagOut
    /\ call.log # <<>> /\ call.log[1].taken
    /\ FdTubeFd.st = "open"

(* ---------------------------------------------------------------------- *)
(* C16: the argv of a returned Cmd holds, for an Args array of n strings,  *)
(* exactly n non-null strings of its own, the i-th a copy of the i-th      *)
(* element, followed by the terminator; an empty Args is legal and gives   *)
(* a non-null array holding the terminator alone, and such a Cmd decodes.  *)
(* ---------------------------------------------------------------------- *)
ArgsOf(item) == json_object_get(item.v.v[1].v, "Args")

C16_ArgvIsCopyOfArgs ==
    /\ (Returned /\ RetIsCmd) =>
          LET args == ArgsOf(call.item).v
              n == Len(args)
              a == heap.m[ret].argv
          IN  /\ IsLivePtrs(a)
              /\ Len(heap.m[a].p) = n + 1
              /\ heap.m[a].p[n + 1] = NULL
              /\ \A i \in 1..n : /\ IsLiveStr(heap.m[a].p[i])
                                 /\ heap.m[heap.m[a].p[i]].s = args[i].v
              /\ \A i, j \in 1..n : i # j => heap.m[a].p[i] # heap.m[a].p[j]
    /\ (Returned /\ IsCmdRequest(call.item) /\ ~FlagIn /\ ~FlagOut
          /\ WellFormedCmd(call.item.v.v[1].v)
          /\ ArgsOf(call.item) = JArr(<<>>)) => RetIsCmd

C16_Witness ==
    /\ Returned /\ RetIsCmd
    /\ ArgsOf(call.item) = JArr(<<>>)
    /\ heap.m[heap.m[ret].argv].p = <<NULL>>

(* ---------------------------------------------------------------------- *)
(* C17: when the input descriptor has been received and the output         *)
(* transfer then fails, the call fails without closing the input           *)
(* descriptor: it is still open after the call, and nothing returned to    *)
(* the caller refers to it.                                                *)
(* ---------------------------------------------------------------------- *)
InputThenOutputFailed ==
    /\ Returned
    /\ Len(call.log) = 2
    /\ call.log[1].slot = "recvInput" /\ call.log[1].taken /\ call.log[1].fd >= 0
    /\ call.log[2].slot = "recvOutput" /\ call.log[2].fd < 0

C17_ReceivedInputLeftOpen ==
    InputThenOutputFailed =>
        /\ ret = NULL
        /\ call.log[1].fd \in openFds
        /\ Live(heap) = {err}
        /\ heap.m[err].kind = "str"

C17_Witness ==
    /\ InputThenOutputFailed
    /\ ret = NULL
    /\ openFds = {call.log[1].fd}

(* ---------------------------------------------------------------------- *)
(* C18: of a request object with several keys only the first enumerated    *)
(* key is inspected: the call's result and its effect on the companion     *)
(* channel are those of the object holding that key and its value alone,   *)
(* whatever the other keys are.                                            *)
(* ---------------------------------------------------------------------- *)
SeveralKeys(item) == item.ok /\ item.v.t = "object" /\ Len(item.v.v) > 1

FirstKeyAlone(item) == Doc(JObj(<<item.v.v[1]>>))

C18_OnlyFirstKeyInspected ==
    (Returned /\ call.parsed /\ SeveralKeys(call.item)) =>
        LET first == call.item.v.v[1] IN
        /\ loadReq(call.item.v) = loadReq(FirstKeyAlone(call.item).v)
        /\ first.k # "Cmd" => RejectedAs("badtype")
        /\ first.k = "Cmd" =>
              /\ call.stage \in CmdStages
              /\ (call.stage = "recvFds") <=> WellFormedCmd(first.v)
              /\ RetIsCmd <=> (/\ call.stage = "recvFds"
                               /\ \A i \in 1..Len(call.log) : call.log[i].fd >= 0)
              /\ RetIsCmd => /\ CmdPopulated(heap.m[ret])
                             /\ heap.m[heap.m[ret].path].s = json_object_get(first.v, "Path").v
                             /\ Len(call.log) = NFlags
              /\ ~RetIsCmd => ret = NULL

C18_Witness ==
    /\ Returned /\ SeveralKeys(call.item)
    /\ call.item.v.v[1].k = "Foo" /\ HasKey(call.item.v, "Cmd")
    /\ RejectedAs("badtype")
    /\ FdTubeFd.q # <<>>

(* ---------------------------------------------------------------------- *)
(* C19: a call returns Exit exactly when the end-of-file indicator of the  *)
(* control stream is set as the call starts; such a call reads nothing     *)
(* from the stream, receives nothing from the companion channel and        *)
(* leaves *err as it was.  A call that finds the indicator unset attempts  *)
(* to parse one document and does not return Exit, and no call consumes    *)
(* more than one document.                                                 *)
(* ---------------------------------------------------------------------- *)
C19_ExitIffIndicatorSet ==
    /\ [][(pc = "idle" /\ pc' # "idle") =>
            /\ TubeFile.eof =>
                  /\ pc' = "returned" /\ RetIsExit'
                  /\ TubeFile' = TubeFile
                  /\ FdTubeFd' = FdTubeFd
                  /\ openFds' = openFds
                  /\ err' = err
                  /\ ~call'.parsed /\ call'.log = <<>>
            /\ ~TubeFile.eof =>
                  /\ call'.parsed
                  /\ TubeFile'.pos <= TubeFile.pos + 1
                  /\ Len(TubeFile'.buf) >= Len(TubeFile.buf) - 1
         ]_vars
    /\ [][TubeFile'.pos <= TubeFile.pos + 1]_vars
    /\ [](Returned => (RetIsExit <=> ~call.parsed))
    /\ [](InRecvmsg => call.parsed)

C19_Witness ==
    /\ Returned /\ RetIsExit
    /\ ~call.parsed /\ call.log = <<>> /\ err = NULL
    /\ FdTubeFd.q # <<>>

====
